---- MODULE Spec2Model ----
(***************************************************************************)
(* Model of the issue-activity resolver                                    *)
(*   src/forge-issue-log/src/resolvers/devSuvitha.js                       *)
(* parseRelativeTime (the filter resolver), fetchIssueComments,            *)
(* fetchIssueAttachments and devSuvitha (the aggregator).                  *)
(*                                                                         *)
(* Instants are whole hours since 1970-01-01T00:00Z.  The Date built-ins   *)
(* the code calls (getMonth/setMonth, getFullYear/setFullYear,             *)
(* toISOString) are modelled by the proleptic Gregorian calendar with the  *)
(* local zone equal to UTC (no DST), which is the zone of the runtime the  *)
(* resolver is deployed on.                                                *)
(***************************************************************************)
EXTENDS Integers, Sequences, FiniteSets

VARIABLES req, now, upstream,
          pc, issueKey, filterValue, cutoffDate,
          changelogEntries, comments, attachments,
          issued, outcome, result,
          filter, data, effectDue, interval, inFlight, shownFor

\* one call of the resolver
callVars == <<req, now, upstream, pc, issueKey, filterValue, cutoffDate,
              changelogEntries, comments, attachments, issued, outcome, result>>

\* the panel (src/forge-issue-log/src/frontend/index.jsx, App)
panelVars == <<filter, data, effectDue, interval, inFlight, shownFor>>

vars == <<callVars, panelVars>>

(***************************************************************************)
(* JavaScript values                                                       *)
(***************************************************************************)
\* the value of a property that is not there
Undefined == "<undefined>"
\* JSON null
Null == "<null>"
\* what item.toString evaluates to when the item has no own "toString" key:
\* the function inherited from Object.prototype
ProtoToString == "<function Object.prototype.toString>"
\* the time value of new Date(x) for an absent or unparseable x
NaN == -1

Falsy(v) == v \in {Undefined, Null, ""}

\* a || b on string-or-nullish operands
Or(a, b) == IF Falsy(a) THEN b ELSE a

(***************************************************************************)
(* Calendar arithmetic of Date (days are days since 1970-01-01)            *)
(***************************************************************************)
HoursPerDay == 24

\* day number of the civil date y-m-d, m in 1..12; d may exceed the month's
\* length, the excess running into the following month (MakeDay)
DaysFromCivil(y, m, d) ==
  LET yy  == IF m <= 2 THEN y - 1 ELSE y
      era == yy \div 400
      yoe == yy - era * 400
      mp  == IF m > 2 THEN m - 3 ELSE m + 9
      doy == (153 * mp + 2) \div 5 + d - 1
      doe == yoe * 365 + yoe \div 4 - yoe \div 100 + doy
  IN era * 146097 + doe - 719468

\* the civil date [year, month (1..12), day] of a day number
CivilFromDays(z) ==
  LET zz  == z + 719468
      era == zz \div 146097
      doe == zz - era * 146097
      yoe == (doe - doe \div 1460 + doe \div 36524 - doe \div 146096) \div 365
      doy == doe - (365 * yoe + yoe \div 4 - yoe \div 100)
      mp  == (5 * doy + 2) \div 153
      d   == doy - (153 * mp + 2) \div 5 + 1
      m   == IF mp < 10 THEN mp + 3 ELSE mp - 9
      y   == yoe + era * 400 + (IF m <= 2 THEN 1 ELSE 0)
  IN [year |-> y, month |-> m, day |-> d]

Day(t) == t \div HoursPerDay
TimeWithinDay(t) == t % HoursPerDay

\* Date.prototype.getFullYear, getMonth (0..11), getDate
getFullYear(t) == CivilFromDays(Day(t)).year
getMonth(t) == CivilFromDays(Day(t)).month - 1
getDate(t) == CivilFromDays(Day(t)).day

\* MakeDay(year, month, date) of the language: month is any integer and is
\* normalised into the year; date is counted from the first of that month
MakeDay(year, month, date) ==
  LET ym == year + (month \div 12)
      mn == month % 12
  IN DaysFromCivil(ym, mn + 1, 1) + date - 1

MakeDate(day, time) == day * HoursPerDay + time

\* variant of setMonth that clamps the day to the last day of the target
\* month instead of running over into the next one
setMonthClamped(t, month) ==
  LET first == MakeDay(getFullYear(t), month, 1)
      len   == MakeDay(getFullYear(t), month + 1, 1) - first
      d     == IF getDate(t) <= len THEN getDate(t) ELSE len
  IN MakeDate(first + d - 1, TimeWithinDay(t))

\* d.setMonth(month): year, day-of-month and time-of-day kept, month replaced
setMonth(t, month) ==
  MakeDate(MakeDay(getFullYear(t), month, getDate(t)), TimeWithinDay(t))

\* d.setFullYear(year): month, day-of-month and time-of-day kept
setFullYear(t, year) ==
  MakeDate(MakeDay(year, getMonth(t), getDate(t)), TimeWithinDay(t))

\* new Date(t).toISOString(): the UTC calendar fields of a valid instant
toISOString(t) ==
  LET c == CivilFromDays(Day(t))
  IN [year |-> c.year, month |-> c.month, day |-> c.day, hour |-> TimeWithinDay(t)]

(***************************************************************************)
(* parseRelativeTime                                                       *)
(***************************************************************************)
NoCutoff == [isNull |-> TRUE, time |-> 0]
Cutoff(t) == [isNull |-> FALSE, time |-> t]

\* variant of parseRelativeTime that matches the tokens without regard to case
parseRelativeTimeAnyCase(fv, n) ==
  CASE fv \in {"24h", "24H"} -> Cutoff(n - HoursPerDay)
    [] fv \in {"7d", "7D"}   -> Cutoff(n - 7 * HoursPerDay)
    [] fv \in {"30d", "30D"} -> Cutoff(n - 30 * HoursPerDay)
    [] fv \in {"6m", "6M"}   -> Cutoff(setMonth(n, getMonth(n) - 6))
    [] fv \in {"1y", "1Y"}   -> Cutoff(setFullYear(n, getFullYear(n) - 1))
    [] OTHER                 -> NoCutoff

parseRelativeTime(fv, n) ==
  CASE fv = "24h" -> Cutoff(n - HoursPerDay)
    [] fv = "7d"  -> Cutoff(n - 7 * HoursPerDay)
    [] fv = "30d" -> Cutoff(n - 30 * HoursPerDay)
    [] fv = "6m"  -> Cutoff(setMonth(n, getMonth(n) - 6))
    [] fv = "1y"  -> Cutoff(setFullYear(n, getFullYear(n) - 1))
    [] OTHER      -> NoCutoff

(***************************************************************************)
(* Upstream responses.  A response is [kind, entries]:                     *)
(*   "throw"       requestJira rejects (transport failure)                 *)
(*   "notok"       res.ok is false                                         *)
(*   "notok_text_throws"  res.ok is false and res.text() rejects           *)
(*   "bad_json"    res.ok, res.json() rejects                              *)
(*   "null_body"   res.ok, the body is the JSON value null                 *)
(*   "no_list"     res.ok, the key holding the list is absent              *)
(*   "not_array"   res.ok, the key holds a truthy value that is no array   *)
(*   "list"        res.ok, the key holds the array `entries`               *)
(***************************************************************************)
Response(kind, entries) == [kind |-> kind, entries |-> entries]

\* variant of the cutoff test that drops an entry created exactly at the cutoff
PassesCutoffStrict(created, cutoff) ==
  cutoff.isNull \/ (created # NaN /\ created > cutoff.time)

\* the cutoff test of the three .filter callbacks; a comparison with an
\* Invalid Date is false
PassesCutoff(created, cutoff) ==
  cutoff.isNull \/ (created # NaN /\ created >= cutoff.time)

RECURSIVE SelectPassing(_, _)
SelectPassing(entries, cutoff) ==
  IF entries = <<>> THEN <<>>
  ELSE LET rest == SelectPassing(Tail(entries), cutoff)
       IN IF PassesCutoff(Head(entries).created, cutoff)
          THEN <<Head(entries)>> \o rest ELSE rest

\* x?.displayName || "Unknown", with the display name Undefined when the
\* author, or its displayName, is absent or null
AuthorName(author) == Or(author, "Unknown")

(***************************************************************************)
(* devSuvitha: changelog normalisation (lines 166-182)                     *)
(***************************************************************************)
\* item.toString: the own property when the key is there (a string or
\* null), else the inherited function
ItemToString(item) ==
  IF item.toString = Undefined THEN ProtoToString ELSE item.toString

ChangelogRecord(key, entry, item) ==
  [issueKey |-> key,
   type     |-> "changelog",
   author   |-> AuthorName(entry.author),
   field    |-> item.field,
   from     |-> Or(item.fromString, "-"),
   to       |-> Or(ItemToString(item), "-"),
   date     |-> toISOString(entry.created)]

\* variant of the flatMap callback that yields one record per entry, for
\* its first field change
ItemRecordsFirstOnly(key, entry) ==
  IF entry.items = <<>> THEN <<>>
  ELSE <<ChangelogRecord(key, entry, entry.items[1])>>

\* entry.items.map(...): one record per item
ItemRecords(key, entry) ==
  [j \in 1..Len(entry.items) |-> ChangelogRecord(key, entry, entry.items[j])]

RECURSIVE FlatMapItems(_, _)
FlatMapItems(key, entries) ==
  IF entries = <<>> THEN <<>>
  ELSE ItemRecords(key, Head(entries)) \o FlatMapItems(key, Tail(entries))

\* the flatMap callback raises a TypeError on an entry without an items
\* array, and toISOString a RangeError on an Invalid Date (once per item)
ChangelogEntryThrows(entry) ==
  \/ ~entry.hasItems
  \/ (entry.created = NaN /\ Len(entry.items) > 0)

\* whether lines 146-182 raise before or after the status test
HistoryThrows(resp, cutoff) ==
  \/ resp.kind \in {"throw", "notok_text_throws", "bad_json", "null_body", "not_array"}
  \/ /\ resp.kind = "list"
     /\ \E i \in 1..Len(resp.entries) :
          /\ PassesCutoff(resp.entries[i].created, cutoff)
          /\ ChangelogEntryThrows(resp.entries[i])

\* json.changelog?.histories || []
AllChanges(resp) == IF resp.kind = "list" THEN resp.entries ELSE <<>>

NormalizeChangelog(key, resp, cutoff) ==
  FlatMapItems(key, SelectPassing(AllChanges(resp), cutoff))

(***************************************************************************)
(* fetchIssueComments (lines 39-77)                                        *)
(***************************************************************************)
ContentUnavailable == "Comment content unavailable"

\* comment.body?.content?.[0]?.content?.[0]?.text || comment.body || "..."
\* body is [kind, text]: "absent"; "string" (a plain string body); "adf"
\* (a document object whose first text node holds `text`, Undefined when
\* there is none at that path)
CommentContent(body) ==
  LET deep == IF body.kind = "adf" THEN body.text ELSE Undefined
      bodyTruthy == \/ body.kind = "adf"
                    \/ (body.kind = "string" /\ ~Falsy(body.text))
  IN IF ~Falsy(deep) THEN [type |-> "string", text |-> deep]
     ELSE IF bodyTruthy
          THEN [type |-> IF body.kind = "adf" THEN "object" ELSE "string",
                text |-> body.text]
          ELSE [type |-> "string", text |-> ContentUnavailable]

\* updated is NaN when the comment has no "updated" key; null is <<>>
CommentRecord(key, comment) ==
  [issueKey |-> key,
   type     |-> "comment",
   author   |-> AuthorName(comment.author),
   content  |-> CommentContent(comment.body),
   created  |-> toISOString(comment.created),
   updated  |-> IF comment.updated = NaN THEN <<>>
                ELSE <<toISOString(comment.updated)>>,
   id       |-> comment.id]

MapComments(key, entries) ==
  [i \in 1..Len(entries) |-> CommentRecord(key, entries[i])]

\* what the try block of a sub-fetch raises: the request, the body parse,
\* a list that is no array, or toISOString on a kept entry's Invalid Date
SubFetchThrows(resp, cutoff) ==
  \/ resp.kind \in {"throw", "bad_json", "null_body", "not_array"}
  \/ /\ resp.kind = "list"
     /\ \E i \in 1..Len(resp.entries) :
          /\ PassesCutoff(resp.entries[i].created, cutoff)
          /\ resp.entries[i].created = NaN

\* the result of a call: threw is whether it rejected, list what it resolved to
Returned(list) == [threw |-> FALSE, list |-> list]
Rejected == [threw |-> TRUE, list |-> <<>>]

\* variant of fetchIssueComments without its catch clause: the call rejects
CommentsUncaught == Rejected

\* the catch clause of fetchIssueComments (lines 73-76)
CommentsCatch == Returned(<<>>)

fetchIssueComments(key, cutoff, resp) ==
  IF SubFetchThrows(resp, cutoff) THEN CommentsCatch
  ELSE IF resp.kind = "notok" THEN Returned(<<>>)
  ELSE Returned(MapComments(key, SelectPassing(AllChanges(resp), cutoff)))

(***************************************************************************)
(* fetchIssueAttachments (lines 85-120)                                    *)
(***************************************************************************)
AttachmentRecord(key, attachment) ==
  [issueKey |-> key,
   type     |-> "attachment",
   author   |-> AuthorName(attachment.author),
   filename |-> attachment.filename,
   size     |-> attachment.size,
   mimeType |-> attachment.mimeType,
   created  |-> toISOString(attachment.created),
   id       |-> attachment.id,
   content  |-> attachment.content]

MapAttachments(key, entries) ==
  [i \in 1..Len(entries) |-> AttachmentRecord(key, entries[i])]

\* the catch clause of fetchIssueAttachments (lines 116-119)
AttachmentsCatch == Returned(<<>>)

fetchIssueAttachments(key, cutoff, resp) ==
  IF SubFetchThrows(resp, cutoff) THEN AttachmentsCatch
  ELSE IF resp.kind = "notok" THEN Returned(<<>>)
  ELSE Returned(MapAttachments(key, SelectPassing(AllChanges(resp), cutoff)))

(***************************************************************************)
(* devSuvitha: the request (lines 130-142)                                 *)
(* A request is nullish, or an object [issueKey, filter, hasPayload,       *)
(* pIssueKey, pFilter]; a filter is [kind, value] with kind "undefined",   *)
(* "string", "object" (value: its value field) or "other" (a number, ...). *)
(***************************************************************************)
DefaultIssueKey == "KC-24"

Filter(kind, value) == [kind |-> kind, value |-> value]
NoFilter == Filter("undefined", Undefined)

Request(key, f, hasPayload, pKey, pf) ==
  [nullish |-> FALSE, issueKey |-> key, filter |-> f,
   hasPayload |-> hasPayload, pIssueKey |-> pKey, pFilter |-> pf]
NullRequest ==
  [nullish |-> TRUE, issueKey |-> Undefined, filter |-> NoFilter,
   hasPayload |-> FALSE, pIssueKey |-> Undefined, pFilter |-> NoFilter]

FilterTruthy(f) ==
  \/ f.kind = "object"
  \/ f.kind = "other"
  \/ (f.kind = "string" /\ f.value # "")

\* req.issueKey || req.payload?.issueKey || "KC-24"
IssueKeyOf(r) ==
  Or(r.issueKey, Or(IF r.hasPayload THEN r.pIssueKey ELSE Undefined, DefaultIssueKey))

\* req.filter || req.payload?.filter || "all"
RawFilterOf(r) ==
  IF FilterTruthy(r.filter) THEN r.filter
  ELSE IF r.hasPayload /\ FilterTruthy(r.pFilter) THEN r.pFilter
  ELSE Filter("string", "all")

\* typeof rawFilter === "string" ? rawFilter : rawFilter?.value || "all"
FilterValueOf(raw) ==
  IF raw.kind = "string" THEN raw.value
  ELSE IF raw.kind = "object" THEN Or(raw.value, "all")
  ELSE "all"

(***************************************************************************)
(* devSuvitha: the envelopes                                               *)
(***************************************************************************)
Envelope(cl, cm, at, total) ==
  [changelog |-> cl, comments |-> cm, attachments |-> at, total |-> total]

EmptyEnvelope == Envelope(<<>>, <<>>, <<>>, 0)

\* variant of the assembly whose total leaves the attachments out
AssembleResultMiscounted(cl, cm, at) == Envelope(cl, cm, at, Len(cl) + Len(cm))

\* lines 192-197
AssembleResult(cl, cm, at) == Envelope(cl, cm, at, Len(cl) + Len(cm) + Len(at))

\* how a call ends: the envelope it resolves to, or "raised" when it rejects
Completion(how, envelope) == [outcome |-> how, result |-> envelope]

\* the early return on a non-success history status (lines 150-159)
HistoryNotOk == Completion("returned", EmptyEnvelope)

\* variant of devSuvitha without its catch clause: the call rejects
OuterUncaught == Completion("raised", EmptyEnvelope)

\* the catch clause of devSuvitha (lines 207-215)
OuterCatch == Completion("returned", EmptyEnvelope)

(***************************************************************************)
(* devSuvitha, one action per await-delimited step                         *)
(***************************************************************************)
Finish(c) ==
  /\ pc' = "done"
  /\ outcome' = c.outcome
  /\ result' = c.result

\* lines 128-143: read the request, resolve the cutoff
Start ==
  /\ pc = "start"
  /\ UNCHANGED panelVars
  /\ IF req.nullish
     THEN /\ Finish(OuterCatch)
          /\ UNCHANGED <<issueKey, filterValue, cutoffDate>>
     ELSE /\ issueKey' = IssueKeyOf(req)
          /\ filterValue' = FilterValueOf(RawFilterOf(req))
          /\ cutoffDate' = parseRelativeTime(FilterValueOf(RawFilterOf(req)), now)
          /\ pc' = "history"
          /\ UNCHANGED <<outcome, result>>
  /\ UNCHANGED <<req, now, upstream, changelogEntries, comments, attachments, issued>>

\* lines 145-182: the history request and the changelog normalisation
FetchHistory ==
  /\ pc = "history"
  /\ UNCHANGED panelVars
  /\ issued' = Append(issued, "history")
  /\ IF HistoryThrows(upstream.history, cutoffDate)
     THEN Finish(OuterCatch) /\ UNCHANGED changelogEntries
     ELSE IF upstream.history.kind = "notok"
     THEN Finish(HistoryNotOk) /\ UNCHANGED changelogEntries
     ELSE /\ changelogEntries' = NormalizeChangelog(issueKey, upstream.history, cutoffDate)
          /\ pc' = "comments"
          /\ UNCHANGED <<outcome, result>>
  /\ UNCHANGED <<req, now, upstream, issueKey, filterValue, cutoffDate, comments, attachments>>

\* lines 184-186
FetchComments ==
  /\ pc = "comments"
  /\ UNCHANGED panelVars
  /\ issued' = Append(issued, "comments")
  /\ LET r == fetchIssueComments(issueKey, cutoffDate, upstream.comments)
     IN IF r.threw
        THEN Finish(OuterCatch) /\ UNCHANGED comments
        ELSE /\ comments' = r.list
             /\ pc' = "attachments"
             /\ UNCHANGED <<outcome, result>>
  /\ UNCHANGED <<req, now, upstream, issueKey, filterValue, cutoffDate,
                 changelogEntries, attachments>>

\* lines 188-190
FetchAttachments ==
  /\ pc = "attachments"
  /\ UNCHANGED panelVars
  /\ issued' = Append(issued, "attachments")
  /\ LET r == fetchIssueAttachments(issueKey, cutoffDate, upstream.attachments)
     IN IF r.threw
        THEN Finish(OuterCatch) /\ UNCHANGED attachments
        ELSE /\ attachments' = r.list
             /\ pc' = "assemble"
             /\ UNCHANGED <<outcome, result>>
  /\ UNCHANGED <<req, now, upstream, issueKey, filterValue, cutoffDate,
                 changelogEntries, comments>>

\* lines 192-206
Return ==
  /\ pc = "assemble"
  /\ UNCHANGED panelVars
  /\ Finish(Completion("returned", AssembleResult(changelogEntries, comments, attachments)))
  /\ UNCHANGED <<req, now, upstream, issueKey, filterValue, cutoffDate,
                 changelogEntries, comments, attachments, issued>>

Next == Start \/ FetchHistory \/ FetchComments \/ FetchAttachments \/ Return

\* the panel's state as App's first render leaves it: useState("all"),
\* useState([]), the effect not yet run, no interval, nothing requested
PanelMounted ==
  /\ filter = Filter("string", "all")
  /\ data = <<>>
  /\ effectDue = TRUE
  /\ interval = NoFilter
  /\ inFlight = <<>>
  /\ shownFor = NoFilter

\* the state of a call before its first statement
Fresh ==
  /\ PanelMounted
  /\ pc = "start"
  /\ issueKey = Undefined
  /\ filterValue = Undefined
  /\ cutoffDate = NoCutoff
  /\ changelogEntries = <<>>
  /\ comments = <<>>
  /\ attachments = <<>>
  /\ issued = <<>>
  /\ outcome = "pending"
  /\ result = EmptyEnvelope

(***************************************************************************)
(* Inputs: bounds                                                          *)
(***************************************************************************)
\* longest list of a source in Spec
MaxSiblings == 2
\* longest list of the source under study in SpecNormalize
MaxEntries == 2
\* most field changes bundled in one history entry
MaxItems == 2
\* years of current instants covered by SpecCalendar
CalendarYears == 3

(***************************************************************************)
(* Inputs: entries of the three sources                                    *)
(***************************************************************************)
Instant(y, m, d, h) == MakeDate(DaysFromCivil(y, m, d), h)

\* creation instants around the "7d" cutoff of a call made at n, and far
\* before every cutoff
Ancient(n) == n - 3 * 365 * HoursPerDay
JustBefore7d(n) == n - 7 * HoursPerDay - 1
At7d(n) == n - 7 * HoursPerDay
Recent(n) == n - 1

SeqsUpTo(S, n) == UNION {[1..k -> S] : k \in 0..n}

\* entries[i] with the source id i (history entries carry none)
WithIds(entries) ==
  [i \in 1..Len(entries) |->
     IF "id" \in DOMAIN entries[i] THEN [entries[i] EXCEPT !.id = i] ELSE entries[i]]

FieldName(j) == <<"status", "priority", "assignee", "summary", "labels">>[j]

Item(field, from, to) == [field |-> field, fromString |-> from, toString |-> to]

\* k field changes: "full" ones carry both values; "sparse" ones carry none
\* (null, or the key left out)
Items(k, flavor) ==
  [j \in 1..k |->
     IF flavor = "full" THEN Item(FieldName(j), "Open", "Done")
     ELSE IF j % 2 = 1 THEN Item(FieldName(j), Null, Undefined)
     ELSE Item(FieldName(j), Undefined, Null)]

HistoryEntry(created, author, hasItems, items) ==
  [created |-> created, author |-> author, hasItems |-> hasItems, items |-> items]

Comment(created, updated, author, body) ==
  [id |-> 0, created |-> created, updated |-> updated, author |-> author, body |-> body]

Body(kind, text) == [kind |-> kind, text |-> text]

Attachment(created, author, filename) ==
  [id |-> 0, created |-> created, author |-> author, filename |-> filename,
   size |-> 2048, mimeType |-> "text/plain", content |-> "https://jira/attachment/content"]

SimpleHistoryEntry(c) == HistoryEntry(c, "alice", TRUE, Items(1, "full"))
SimpleComment(c) == Comment(c, NaN, "bob", Body("adf", "looks good"))
SimpleAttachment(c) == Attachment(c, "carol", "trace.log")

RichHistoryEntries(n) ==
  {HistoryEntry(c, a.author, TRUE, Items(k, a.flavor)) :
     c \in {JustBefore7d(n), At7d(n), Recent(n)},
     k \in 0..MaxItems,
     a \in {[author |-> "alice", flavor |-> "full"],
            [author |-> Undefined, flavor |-> "sparse"]}}
  \cup {HistoryEntry(NaN, "alice", TRUE, Items(1, "full")),
        HistoryEntry(NaN, "alice", TRUE, <<>>),
        HistoryEntry(At7d(n), "alice", FALSE, <<>>),
        HistoryEntry(JustBefore7d(n), "alice", FALSE, <<>>)}

RichComments(n) ==
  {Comment(c, v.updated, v.author, v.body) :
     c \in {JustBefore7d(n), At7d(n), Recent(n)},
     v \in {[updated |-> Recent(n), author |-> "bob",     body |-> Body("adf", "looks good")],
            [updated |-> NaN,       author |-> "bob",     body |-> Body("string", "plain text")],
            [updated |-> NaN,       author |-> Undefined, body |-> Body("adf", Undefined)],
            [updated |-> Recent(n), author |-> "bob",     body |-> Body("absent", Undefined)],
            [updated |-> NaN,       author |-> "bob",     body |-> Body("string", "")]}}
  \cup {Comment(NaN, NaN, "bob", Body("adf", "looks good"))}

RichAttachments(n) ==
  {Attachment(c, v.author, v.filename) :
     c \in {JustBefore7d(n), At7d(n), Recent(n)},
     v \in {[author |-> "carol",   filename |-> "trace.log"],
            [author |-> Undefined, filename |-> "trace.log"],
            [author |-> "carol",   filename |-> Undefined]}}
  \cup {Attachment(NaN, "carol", "trace.log")}

(***************************************************************************)
(* Inputs: responses                                                       *)
(***************************************************************************)
Lists(S, n) == {Response("list", e) : e \in SeqsUpTo(S, n)}

IdLists(S, n) == {Response("list", WithIds(e)) : e \in SeqsUpTo(S, n)}

SubFailureKinds == {"throw", "notok", "bad_json", "null_body", "not_array"}
HistoryFailureKinds == SubFailureKinds \cup {"notok_text_throws"}

Failures(kinds) == {Response(k, <<>>) : k \in kinds \cup {"no_list"}}

\* the responses of Spec: every failure, and short lists of plain entries
\* created at and long before the "7d" cutoff, one list ending in an entry
\* without a creation date
SiblingHistory(n) ==
  Failures(HistoryFailureKinds)
  \cup Lists({SimpleHistoryEntry(c) : c \in {Ancient(n), At7d(n)}}, MaxSiblings)
  \cup {Response("list", <<SimpleHistoryEntry(At7d(n)), SimpleHistoryEntry(NaN)>>)}

SiblingComments(n) ==
  Failures(SubFailureKinds)
  \cup IdLists({SimpleComment(c) : c \in {Ancient(n), At7d(n)}}, MaxSiblings)
  \cup {Response("list", WithIds(<<SimpleComment(At7d(n)), SimpleComment(NaN)>>))}

SiblingAttachments(n) ==
  Failures(SubFailureKinds)
  \cup IdLists({SimpleAttachment(c) : c \in {Ancient(n), At7d(n)}}, MaxSiblings)
  \cup {Response("list", WithIds(<<SimpleAttachment(At7d(n)), SimpleAttachment(NaN)>>))}

Upstream(h, c, a) == [history |-> h, comments |-> c, attachments |-> a]

\* one list per source holding an entry of every age
WideUpstream(n) ==
  LET ages == <<Ancient(n), JustBefore7d(n), At7d(n), Recent(n)>>
  IN Upstream(
       Response("list", [i \in 1..4 |-> SimpleHistoryEntry(ages[i])]),
       Response("list", WithIds([i \in 1..4 |-> SimpleComment(ages[i])])),
       Response("list", WithIds([i \in 1..4 |-> SimpleAttachment(ages[i])])))

\* the upstreams of SpecNormalize: one source with lists of every kind of
\* entry, the other two with one plain entry each
NormalizeUpstreams(n) ==
  LET h == Response("list", <<SimpleHistoryEntry(Recent(n))>>)
      c == Response("list", WithIds(<<SimpleComment(Recent(n))>>))
      a == Response("list", WithIds(<<SimpleAttachment(Recent(n))>>))
  IN {Upstream(x, c, a) : x \in Lists(RichHistoryEntries(n), MaxEntries)}
     \cup {Upstream(h, x, a) : x \in IdLists(RichComments(n), MaxEntries)}
     \cup {Upstream(h, c, x) : x \in IdLists(RichAttachments(n), MaxEntries)}

(***************************************************************************)
(* Inputs: requests and current instants                                   *)
(***************************************************************************)
KnownTokens == {"24h", "7d", "30d", "6m", "1y"}
Tokens == KnownTokens \cup {"all", "", "2w", "24H", "7 d"}

Bare(t) == Request("KC-7", Filter("string", t), FALSE, Undefined, NoFilter)
Wrapped(t) == Request("KC-7", Filter("object", t), FALSE, Undefined, NoFilter)

SiblingRequests ==
  {NullRequest,
   Request(Undefined, NoFilter, FALSE, Undefined, NoFilter),
   Bare("7d"), Wrapped("24h"), Bare("2w")}

NormalizeRequests == {Bare("7d"), Wrapped("all")}

FilterRequests ==
  {NullRequest}
  \cup {Request(k, f, FALSE, Undefined, NoFilter) :
          k \in {"KC-7", Undefined},
          f \in {NoFilter, Filter("other", Undefined)}
                \cup {Filter("string", t) : t \in Tokens}
                \cup {Filter("object", t) : t \in Tokens \cup {Undefined, Null}}}
  \cup {Request(Undefined, f, TRUE, k, pf) :
          f \in {NoFilter, Filter("string", ""), Filter("string", "7d")},
          k \in {"KC-9", Undefined},
          pf \in {NoFilter, Filter("string", "30d"), Filter("string", "2w"),
                  Filter("object", "1y"), Filter("object", "")}}

CalendarRequests == {Bare("6m"), Wrapped("6m"), Bare("1y"), Bare("30d")}

NowDefault == Instant(2024, 8, 31, 13)

FilterNows == {NowDefault, Instant(2024, 2, 29, 0), Instant(2025, 1, 10, 23)}

\* every day of CalendarYears years from 2023-01-01 on, at the first and the
\* last hour of the day
CalendarNows ==
  {MakeDate(d, h) :
     d \in DaysFromCivil(2023, 1, 1)..(DaysFromCivil(2023 + CalendarYears, 1, 1) - 1),
     h \in {0, 23}}

(***************************************************************************)
(* Specifications: the same call under four input domains                  *)
(***************************************************************************)
\* failure isolation: every kind of response on every source
Init ==
  /\ Fresh
  /\ now = NowDefault
  /\ req \in SiblingRequests
  /\ upstream \in {Upstream(h, c, a) : h \in SiblingHistory(now),
                                       c \in SiblingComments(now),
                                       a \in SiblingAttachments(now)}

Spec == Init /\ [][Next]_vars

\* outcomes: every mix of failures and answers over the three sources, each
\* answer one fixed list
OutcomeResponses(failures, old, atCutoff, undated) ==
  failures
  \cup {Response("list", WithIds(<<old, atCutoff>>)),
        Response("list", WithIds(<<atCutoff, undated>>))}

InitOutcomes ==
  /\ Fresh
  /\ now = NowDefault
  /\ req \in SiblingRequests
  /\ upstream \in {Upstream(h, c, a) :
        h \in OutcomeResponses(Failures(HistoryFailureKinds),
               SimpleHistoryEntry(Ancient(now)), SimpleHistoryEntry(At7d(now)),
               SimpleHistoryEntry(NaN)),
        c \in OutcomeResponses(Failures(SubFailureKinds),
               SimpleComment(Ancient(now)), SimpleComment(At7d(now)), SimpleComment(NaN)),
        a \in OutcomeResponses(Failures(SubFailureKinds),
               SimpleAttachment(Ancient(now)), SimpleAttachment(At7d(now)),
               SimpleAttachment(NaN))}

SpecOutcomes == InitOutcomes /\ [][Next]_vars

\* normalisation: every kind of entry on one source
InitNormalize ==
  /\ Fresh
  /\ now = NowDefault
  /\ req \in NormalizeRequests
  /\ upstream \in NormalizeUpstreams(now)

SpecNormalize == InitNormalize /\ [][Next]_vars

\* request unwrapping: every shape and token of the filter
InitFilter ==
  /\ Fresh
  /\ now \in FilterNows
  /\ req \in FilterRequests
  /\ upstream = WideUpstream(now)

SpecFilter == InitFilter /\ [][Next]_vars

\* calendar cutoffs: every current instant of CalendarYears years
InitCalendar ==
  /\ Fresh
  /\ now \in CalendarNows
  /\ req \in CalendarRequests
  /\ upstream = WideUpstream(now)

SpecCalendar == InitCalendar /\ [][Next]_vars

(***************************************************************************)
(* Vocabulary of the properties                                            *)
(***************************************************************************)
Done == pc = "done"

Reached(source) == \E i \in 1..Len(issued) : issued[i] = source

\* an entry is kept when no cutoff is set or it was created at or after it
Kept(e) == cutoffDate.isNull \/ e.created >= cutoffDate.time

\* a source succeeds when its request was issued and answered with a success
\* status, and nothing was raised while its body was read and normalised
HistorySucceeds ==
  /\ Reached("history")
  /\ upstream.history.kind \in {"list", "no_list"}
  /\ \A i \in 1..Len(upstream.history.entries) :
       LET e == upstream.history.entries[i]
       IN Kept(e) => e.hasItems /\ (e.created # NaN \/ e.items = <<>>)

SubAnswers(resp) ==
  /\ resp.kind \in {"list", "no_list"}
  /\ \A i \in 1..Len(resp.entries) : Kept(resp.entries[i]) => resp.entries[i].created # NaN

CommentsSucceed == Reached("comments") /\ SubAnswers(upstream.comments)
AttachmentsSucceed == Reached("attachments") /\ SubAnswers(upstream.attachments)

\* the instant an ISO timestamp denotes
InstantOf(iso) == MakeDate(DaysFromCivil(iso.year, iso.month, iso.day), iso.hour)

IsList(x) == DOMAIN x = 1..Len(x)

Range(f) == {f[i] : i \in DOMAIN f}

\* the collections a source yields from its own response and the cutoff
OwnComments == fetchIssueComments(issueKey, cutoffDate, upstream.comments).list
OwnAttachments == fetchIssueAttachments(issueKey, cutoffDate, upstream.attachments).list
OwnChangelog == NormalizeChangelog(issueKey, upstream.history, cutoffDate)

(***************************************************************************)
(* C1: when the history request returns a non-success status, only the     *)
(* changelog degrades to empty: the comments and attachments requests are  *)
(* still issued, and the envelope carries the records they produce, with   *)
(* total their combined count.                                             *)
(* The code returns the all-empty envelope at once (lines 150-159).        *)
(***************************************************************************)
C1_HistoryNotOkKeepsSiblings ==
  (Done /\ Reached("history") /\ upstream.history.kind = "notok") =>
     /\ issued = <<"history", "comments", "attachments">>
     /\ result.changelog = <<>>
     /\ result.comments = OwnComments
     /\ result.attachments = OwnAttachments
     /\ result.total = Len(OwnComments) + Len(OwnAttachments)

(***************************************************************************)
(* C2: when the history request succeeds and the comments or the           *)
(* attachments request fails (non-success status, or an exception while    *)
(* fetching or parsing), the failed source's collection is empty, the      *)
(* other collections are what their own responses yield, and total is the  *)
(* sum of the unaffected collections' lengths.                             *)
(***************************************************************************)
C2_SubFetchFailureIsolated ==
  (/\ Done
   /\ HistorySucceeds
   /\ ~SubAnswers(upstream.comments) \/ ~SubAnswers(upstream.attachments)) =>
     LET cm == IF SubAnswers(upstream.comments)
               THEN MapComments(issueKey, SelectPassing(upstream.comments.entries, cutoffDate))
               ELSE <<>>
         at == IF SubAnswers(upstream.attachments)
               THEN MapAttachments(issueKey, SelectPassing(upstream.attachments.entries, cutoffDate))
               ELSE <<>>
     IN /\ outcome = "returned"
        /\ result.changelog = OwnChangelog
        /\ result.comments = cm
        /\ result.attachments = at
        /\ result.total = Len(OwnChangelog) + Len(cm) + Len(at)

\* the comments request is rejected while history and attachments yield records
C2_Witness ==
  /\ Done
  /\ upstream.comments.kind = "throw"
  /\ result.comments = <<>>
  /\ Len(result.changelog) >= 1
  /\ Len(result.attachments) >= 1
  /\ result.total = Len(result.changelog) + Len(result.attachments)

(***************************************************************************)
(* C3: for every request and every upstream behaviour the call completes   *)
(* by returning an envelope and never raises to its caller; when the       *)
(* history request itself throws, the envelope is all-empty with total 0.  *)
(***************************************************************************)
C3_NeverRaises ==
  /\ outcome # "raised"
  /\ Done <=> outcome = "returned"
  /\ ~Done => ENABLED Next
  /\ (Done /\ Reached("history") /\ upstream.history.kind = "throw") =>
        /\ result.changelog = <<>>
        /\ result.comments = <<>>
        /\ result.attachments = <<>>
        /\ result.total = 0

\* the history request throws although the other sources hold entries
C3_Witness ==
  /\ Done
  /\ outcome = "returned"
  /\ upstream.history.kind = "throw"
  /\ issued = <<"history">>
  /\ Len(upstream.comments.entries) >= 1
  /\ result.total = 0

(***************************************************************************)
(* C4: every returned envelope holds the three collections as lists and    *)
(* its total is the sum of their lengths.                                  *)
(***************************************************************************)
C4_EnvelopeWellFormed ==
  outcome = "returned" =>
     /\ DOMAIN result = {"changelog", "comments", "attachments", "total"}
     /\ IsList(result.changelog)
     /\ IsList(result.comments)
     /\ IsList(result.attachments)
     /\ result.total = Len(result.changelog) + Len(result.comments) + Len(result.attachments)

\* an envelope with records of all three kinds
C4_Witness ==
  /\ outcome = "returned"
  /\ Len(result.changelog) >= 1
  /\ Len(result.comments) >= 1
  /\ Len(result.attachments) >= 1
  /\ result.total >= 3

(***************************************************************************)
(* C5: for each source that succeeds, a raw entry contributes records if   *)
(* and only if no cutoff is set or its creation instant is at or after the *)
(* cutoff; an entry exactly at the cutoff is kept, one before it is not.   *)
(* (A history entry bundling no field change has no record to contribute.) *)
(***************************************************************************)
KeptIds(resp) ==
  {resp.entries[i].id : i \in {k \in 1..Len(resp.entries) : Kept(resp.entries[k])}}

C5_CutoffFilter ==
  Done =>
     /\ HistorySucceeds =>
          {InstantOf(r.date) : r \in Range(result.changelog)}
            = {e.created : e \in {x \in Range(upstream.history.entries) :
                                    Kept(x) /\ x.items # <<>>}}
     /\ CommentsSucceed =>
          /\ {r.id : r \in Range(result.comments)} = KeptIds(upstream.comments)
          /\ Len(result.comments) = Cardinality(KeptIds(upstream.comments))
     /\ AttachmentsSucceed =>
          /\ {r.id : r \in Range(result.attachments)} = KeptIds(upstream.attachments)
          /\ Len(result.attachments) = Cardinality(KeptIds(upstream.attachments))

\* a cutoff is set; one comment created exactly at it is returned, one
\* created an hour before it is not
C5_Witness ==
  /\ Done
  /\ ~cutoffDate.isNull
  /\ CommentsSucceed
  /\ \E i, j \in 1..Len(upstream.comments.entries) :
       /\ upstream.comments.entries[i].created = cutoffDate.time
       /\ upstream.comments.entries[j].created = cutoffDate.time - 1
       /\ \E r \in Range(result.comments) : r.id = i
       /\ \A r \in Range(result.comments) : r.id # j

(***************************************************************************)
(* C6: changelog normalisation yields one record per changed field: a kept *)
(* history entry bundling k field changes yields exactly k records, each   *)
(* with that entry's author and timestamp, so the changelog's length is    *)
(* the sum of the kept entries' item counts, in source order.              *)
(***************************************************************************)
RECURSIVE KeptItemCount(_, _)
\* the number of field changes of the kept entries among the first n
KeptItemCount(entries, n) ==
  IF n = 0 THEN 0
  ELSE KeptItemCount(entries, n - 1)
       + (IF Kept(entries[n]) THEN Len(entries[n].items) ELSE 0)

C6_OneRecordPerField ==
  (Done /\ HistorySucceeds) =>
     LET es == upstream.history.entries
     IN /\ Len(result.changelog) = KeptItemCount(es, Len(es))
        /\ \A i \in 1..Len(es) : Kept(es[i]) =>
             \A j \in 1..Len(es[i].items) :
               LET r == result.changelog[KeptItemCount(es, i - 1) + j]
               IN /\ r.type = "changelog"
                  /\ r.field = es[i].items[j].field
                  /\ InstantOf(r.date) = es[i].created
                  /\ r.author = (IF es[i].author \in {Undefined, Null, ""}
                                 THEN "Unknown" ELSE es[i].author)

\* an entry before the cutoff, then a kept entry with two field changes
C6_Witness ==
  /\ Done
  /\ HistorySucceeds
  /\ Len(upstream.history.entries) = 2
  /\ ~Kept(upstream.history.entries[1])
  /\ Len(upstream.history.entries[1].items) >= 1
  /\ Kept(upstream.history.entries[2])
  /\ Len(upstream.history.entries[2].items) = 2
  /\ Len(result.changelog) = 2
  /\ result.changelog[1].field # result.changelog[2].field
  /\ result.changelog[1].date = result.changelog[2].date

(***************************************************************************)
(* C7: missing or malformed nested fields never leave a hole in a returned *)
(* record: an absent author becomes "Unknown", an absent prior or new      *)
(* value "-", a comment whose body text is absent or cannot be extracted   *)
(* gets the content-unavailable string (content is always a string), and   *)
(* an absent attachment filename gets a placeholder, not undefined.        *)
(* The code returns the function item.toString inherits, the body object   *)
(* itself, and an undefined filename.                                      *)
(***************************************************************************)
Hole(v) == v \in {Undefined, Null, ProtoToString}

C7_NoHoles ==
  outcome = "returned" =>
     /\ \A r \in Range(result.changelog) :
          ~Hole(r.author) /\ ~Hole(r.from) /\ ~Hole(r.to)
     /\ \A r \in Range(result.comments) :
          ~Hole(r.author) /\ r.content.type = "string" /\ ~Hole(r.content.text)
     /\ \A r \in Range(result.attachments) :
          ~Hole(r.author) /\ ~Hole(r.filename)

(***************************************************************************)
(* C8: the envelope does not depend on the order or concurrency of the     *)
(* three requests: each collection is determined only by its own source's  *)
(* response and the cutoff, and no collection depends on the outcome of    *)
(* another source's request.                                               *)
(* In the code the comments and attachments collections are empty whenever *)
(* the history request does not succeed.                                   *)
(***************************************************************************)
C8_CollectionsIndependent ==
  (Done /\ ~req.nullish) =>
     /\ result.changelog = (IF HistorySucceeds THEN OwnChangelog ELSE <<>>)
     /\ result.comments = OwnComments
     /\ result.attachments = OwnAttachments

(***************************************************************************)
(* C9: for every filter token outside {24h, 7d, 30d, 6m, 1y}, the empty    *)
(* string included, no cutoff is resolved, exactly as for "all": the call, *)
(* given the token bare or wrapped in a value field, filters nothing out   *)
(* and returns every entry of every source.                                *)
(***************************************************************************)
\* the request carries its filter in `filter`, as a string or wrapped, and
\* the token is none of the known ones
UnknownToken ==
  /\ ~req.nullish
  /\ req.filter.kind \in {"string", "object"}
  /\ req.filter.value \notin KnownTokens
  /\ ~req.hasPayload \/ req.pFilter.kind = "undefined"

C9_UnknownTokenIsAll ==
  UnknownToken =>
     /\ pc # "start" => cutoffDate = parseRelativeTime("all", now) /\ cutoffDate.isNull
     /\ Done =>
          /\ Len(result.changelog) = Len(upstream.history.entries)
          /\ {r.id : r \in Range(result.comments)} = 1..Len(upstream.comments.entries)
          /\ {r.id : r \in Range(result.attachments)} = 1..Len(upstream.attachments.entries)
          /\ result.total = Len(upstream.history.entries) + Len(upstream.comments.entries)
                            + Len(upstream.attachments.entries)

\* the empty string, bare, and an unknown token, wrapped: entries older than
\* every known cutoff are returned
C9_Witness ==
  /\ Done
  /\ UnknownToken
  /\ \/ (req.filter.kind = "string" /\ req.filter.value = "")
     \/ (req.filter.kind = "object" /\ req.filter.value = "24H")
  /\ \E r \in Range(result.comments) : InstantOf(r.created) = Ancient(now)
  /\ result.total = 12

(***************************************************************************)
(* C10: for the token "6m" and every current instant, the cutoff's month   *)
(* is the current month less 6 (year adjusted on wrap) and its day of      *)
(* month and time of day are those of the current instant, also on the     *)
(* 29th, 30th and 31st.                                                    *)
(* setMonth counts the day from the first of the target month, so a day    *)
(* the target month lacks runs over into the month after it.               *)
(***************************************************************************)
SixMonths == pc # "start" /\ filterValue = "6m"

\* the month six months before month m of year y
TargetMonth(m) == ((m + 5) % 12) + 1
TargetYear(y, m) == IF m > 6 THEN y ELSE y - 1

C10_SameDaySixMonthsBack ==
  SixMonths =>
     LET n == CivilFromDays(Day(now))
         c == CivilFromDays(Day(cutoffDate.time))
     IN /\ ~cutoffDate.isNull
        /\ c.year = TargetYear(n.year, n.month)
        /\ c.month = TargetMonth(n.month)
        /\ c.day = n.day
        /\ TimeWithinDay(cutoffDate.time) = TimeWithinDay(now)

IsLeapYear(y) == (y % 4 = 0 /\ y % 100 # 0) \/ y % 400 = 0

DaysInMonth(y, m) ==
  IF m = 2 THEN (IF IsLeapYear(y) THEN 29 ELSE 28)
  ELSE IF m \in {4, 6, 9, 11} THEN 30 ELSE 31

\* C10 as amended: the same day six months back when the target month has that
\* day; otherwise the day after its last by as many days as the current day
\* of month exceeds the target month's length.  The time of day is kept.
C10_SixMonthsBackRollsOver ==
  SixMonths =>
     LET n    == CivilFromDays(Day(now))
         c    == CivilFromDays(Day(cutoffDate.time))
         ty   == TargetYear(n.year, n.month)
         tm   == TargetMonth(n.month)
         len  == DaysInMonth(ty, tm)
     IN /\ ~cutoffDate.isNull
        /\ TimeWithinDay(cutoffDate.time) = TimeWithinDay(now)
        /\ IF n.day <= len
           THEN c = [year |-> ty, month |-> tm, day |-> n.day]
           ELSE c = [year  |-> IF tm = 12 THEN ty + 1 ELSE ty,
                     month |-> IF tm = 12 THEN 1 ELSE tm + 1,
                     day   |-> n.day - len]

\* 31 August of a leap year: the cutoff is 2 March, not a day of February
C10_Witness ==
  /\ SixMonths
  /\ CivilFromDays(Day(now)) = [year |-> 2024, month |-> 8, day |-> 31]
  /\ CivilFromDays(Day(cutoffDate.time)) = [year |-> 2024, month |-> 3, day |-> 2]
  /\ TimeWithinDay(cutoffDate.time) = TimeWithinDay(now)

(***************************************************************************)
(* The panel: App of src/forge-issue-log/src/frontend/index.jsx            *)
(*                                                                         *)
(* filter    the state of useState("all"): the string "all" until the      *)
(*           Select hands its chosen option to setFilter                   *)
(* data      the state of useState([]): the displayed activities           *)
(* effectDue a render with a changed filter is committed and its effect    *)
(*           has not run yet                                               *)
(* interval  the filter in the closure of the fetchData that setInterval   *)
(*           calls; NoFilter while no interval is set                      *)
(* inFlight  the invoke calls not yet settled, each by the filter of its   *)
(*           payload; they settle in any order                             *)
(* shownFor  the filter of the fetch whose result data holds; NoFilter     *)
(*           while data holds no fetch result                              *)
(***************************************************************************)
MaxInFlight == 2

\* the values of the Select's options (lines 394-401)
OptionValues == {"all", "24h", "7d", "30d", "6m", "1y"}

\* invoke(currentDev, { filter: filter, issueKey: "KC-24" }) (lines 359-362):
\* the resolver finds both under req.payload
InvokeRequest(f) == Request(Undefined, NoFilter, TRUE, "KC-24", f)

\* the envelope a call of devSuvitha resolves to: its steps in order
devSuvitha(r, n, up) ==
  IF r.nullish THEN OuterCatch.result
  ELSE LET key    == IssueKeyOf(r)
           cutoff == parseRelativeTime(FilterValueOf(RawFilterOf(r)), n)
           cm     == fetchIssueComments(key, cutoff, up.comments)
           at     == fetchIssueAttachments(key, cutoff, up.attachments)
       IN IF HistoryThrows(up.history, cutoff) THEN OuterCatch.result
          ELSE IF up.history.kind = "notok" THEN HistoryNotOk.result
          ELSE IF cm.threw \/ at.threw THEN OuterCatch.result
          ELSE AssembleResult(NormalizeChangelog(key, up.history, cutoff),
                              cm.list, at.list)

\* lines 363-369: the three lists of the envelope, one after the other
AllActivities(envelope) ==
  envelope.changelog \o envelope.comments \o envelope.attachments

\* fetchData up to its await (lines 357-362), with the filter of its closure
FetchData(f) == inFlight' = Append(inFlight, f)

Settled(i) ==
  inFlight' = [j \in 1..(Len(inFlight) - 1) |->
                 IF j < i THEN inFlight[j] ELSE inFlight[j + 1]]

\* onChange={(value) => setFilter(value)} (line 403): the chosen option
\* becomes the filter and the render it causes schedules the effect
SelectFilter ==
  \E v \in OptionValues :
    /\ ~effectDue
    /\ filter' = Filter("object", v)
    /\ effectDue' = TRUE
    /\ UNCHANGED <<data, interval, inFlight, shownFor>>
    /\ UNCHANGED callVars

\* the effect of [filter] (lines 355-381): the cleanup of the previous run
\* clears its interval, nothing else; then fetchData() and a new interval
RunEffect ==
  /\ effectDue
  /\ Len(inFlight) < MaxInFlight
  /\ effectDue' = FALSE
  /\ FetchData(filter)
  /\ interval' = filter
  /\ UNCHANGED <<filter, data, shownFor>>
  /\ UNCHANGED callVars

\* setInterval(fetchData, 10000) (line 379) fires
PollTick ==
  /\ interval # NoFilter
  /\ Len(inFlight) < MaxInFlight
  /\ FetchData(interval)
  /\ UNCHANGED <<filter, data, effectDue, interval, shownFor>>
  /\ UNCHANGED callVars

\* an invoke resolves (lines 363-374): the envelope is an object, its
\* activities are stored
InvokeResolves ==
  \E i \in 1..Len(inFlight) :
    /\ data' = AllActivities(devSuvitha(InvokeRequest(inFlight[i]), now, upstream))
    /\ shownFor' = inFlight[i]
    /\ Settled(i)
    /\ UNCHANGED <<filter, effectDue, interval>>
    /\ UNCHANGED callVars

\* an invoke rejects (lines 375-378): the empty list is stored
InvokeRejects ==
  \E i \in 1..Len(inFlight) :
    /\ data' = <<>>
    /\ shownFor' = NoFilter
    /\ Settled(i)
    /\ UNCHANGED <<filter, effectDue, interval>>
    /\ UNCHANGED callVars

NextPanel == SelectFilter \/ RunEffect \/ PollTick \/ InvokeResolves \/ InvokeRejects

\* the panel just rendered for the first time, over an issue with activity
\* on both sides of every cutoff
InitPanel ==
  /\ Fresh
  /\ now = NowDefault
  /\ upstream = WideUpstream(NowDefault)
  /\ req = InvokeRequest(Filter("string", "all"))

SpecPanel == InitPanel /\ [][NextPanel]_vars

\* C11: whenever a step stores the result of a fetch as the displayed data,
\* that fetch was issued with the filter selected at that moment; the result
\* of a request made for an earlier filter is never stored.
C11_StoredForSelectedFilter ==
  [][(Len(inFlight') < Len(inFlight) /\ shownFor' # NoFilter)
       => FilterValueOf(shownFor') = FilterValueOf(filter')]_vars

====
